---- MODULE Spec2Model ----
(***************************************************************************)
(* The NFT auction contract of src/src/lib.rs as a state machine.          *)
(*                                                                         *)
(* One action is one receipt executed by the NEAR runtime: a call of a     *)
(* contract method (through the entry point that #[near] generates for it) *)
(* or the resolution of one promise the contract has scheduled.  A method  *)
(* that panics leaves the contract state as it was.                        *)
(*                                                                         *)
(* The two IterableMaps are modelled at the level of contract storage,     *)
(* because lib.rs gives every IterableMap the same prefix b"a" (lines 47   *)
(* and 119): store::IterableMap::new(p) keeps its keys in a Vector under   *)
(* p ++ "v" ++ index and its values in a LookupMap under p ++ "m" ++ key,  *)
(* and only the Vector's length lives in the struct that owns the map.     *)
(***************************************************************************)
EXTENDS Integers, Sequences, FiniteSets, TLC

VARIABLES
    now,         \* env::block_timestamp()
    keysLen,     \* Contract.auctions: length of its key Vector
    vecSlot,     \* storage under "av": index -> serialized key
    auctionVal,  \* storage under "am", keyed by an NFTId: Auction and key index
    bidVal,      \* storage under "am", keyed by an AccountId: Bid and key index
    pending,     \* promise chains the contract has scheduled, not yet finished
    lastCall     \* the receipt executed last: method, arguments, outcome

vars == <<now, keysLen, vecSlot, auctionVal, bidVal, pending, lastCall>>

---------------------------------------------------------------------------
(* Bounds of the model *)

\* block timestamps run from 1 to MaxNow
MaxNow == 2
\* the largest timestamp of the model's unsigned timestamp type (u64::MAX in
\* the code); current_time.checked_add overflows above it
MaxTimestamp == 3
\* amounts and deposits run from 0 to MaxAmount (NearToken, in yoctoNEAR)
MaxAmount == 2
\* promise chains in flight at once
MaxPending == 1

---------------------------------------------------------------------------
(* Accounts and inputs *)

\* env::current_account_id(): the account the contract is deployed to
Self == "auction"
\* accounts that hold no contract
Users == {"alice", "bob"}
\* accounts that hold an NFT contract (NEP-171 / NEP-178)
NftContracts == {"nft"}
Accounts == Users \cup NftContracts \cup {Self}
\* the accounts that appear as the collection `nft` of a call
Collections == {"nft", "alice"}
Tokens == {"t1"}
Amounts == 0..MaxAmount
\* the accounts that put an asset up for auction
Owners == {"alice"}
\* floors asked for (minimum_bid)
Floors == {1}
Timespans == {0, 1, MaxTimestamp}

\* NFTId::new: the hash of (nft, token_id); distinct pairs are kept distinct
NFTIdNew(nft, token_id) == <<nft, token_id>>
NFTIds == {NFTIdNew(c, t) : c \in Collections, t \in Tokens}

\* serialized keys, as they lie in the Vector's slots
NftKey(id) == [type |-> "NFTId", key |-> id]
AccountKey(acc) == [type |-> "AccountId", key |-> acc]

---------------------------------------------------------------------------
(* Panic messages *)

ErrNotInAuction == "this nft is not in auction"
ErrTimespan == "timestamp must be greater than 0"
ErrOverflow == "adding timespan to timestamp overflowed, timespan is too big"
ErrInvalidMessage == "Invalid message"
ErrStillOpen == "cannot end, auction is still ongoing"
ErrBidTooLow == "bid amount does not exceed previous bid or minimum bid amount"
ErrDeposit == "provided deposit does not cover bid amount"
ErrDuplicateBid == "bidder has already made a bid, either call refundBid or updateBid"
ErrExpired == "cannot bid, auction is over"
\* raised by the entry point #[near] generates for a &mut self method
\* that is not #[payable]
ErrNoDeposit == "Method does not accept deposit"
\* raised by the entry point of a #[private] method
ErrPrivate == "Method is private"
\* near_sdk::Promise::then on a promise that already follows another
ErrScheduled == "Cannot callback promise which is already scheduled after another"
\* a storage slot that does not deserialize as the type read from it
ErrStorage == "storage is corrupted"

---------------------------------------------------------------------------
(* Promises *)

NoId == <<>>
NoAccount == "none"

\* one promise of a chain: a call to another contract, a call back to this
\* contract, or a transfer of NEAR
Leg(kind, to, account, id, amount, deposit, expiry) ==
    [kind |-> kind, to |-> to, account |-> account, nft_id |-> id,
     amount |-> amount, deposit |-> deposit, expiry |-> expiry]

\* ext_nft_core::ext(nft).with_attached_deposit(1).nft_transfer(current, ..)
NftTransferLeg(nft, id) == Leg("nft_transfer", nft, Self, id, 0, 1, 0)
\* Self::ext(current).start_auction(owner_id, nft_id, expiry, minimum_bid)
StartAuctionLeg(owner_id, id, expiry, minimum_bid) ==
    Leg("start_auction", Self, owner_id, id, minimum_bid, 0, expiry)
\* ext_nft_approval::ext(nft).with_attached_deposit(d).nft_approve(token, acc)
NftApproveLeg(nft, id, acc, d) == Leg("nft_approve", nft, acc, id, 0, d, 0)
\* Promise::new(acc).transfer(amount)
TransferLeg(acc, amount) == Leg("transfer", acc, acc, NoId, amount, 0, 0)

\* a chain a.then(b).then(c): legs run in order, each after the one before
\* it has resolved, whether that one succeeded or failed
Chain(legs) == [legs |-> legs, pc |-> 1, results |-> <<>>]

NoLegs == <<>>

\* AuctionParams as serde_json::from_str reads it from msg, or NoParams when
\* msg is not such a document
NoParams == [timespan |-> 0, minimum_bid |-> 0, parsed |-> FALSE]

\* what lastCall records of a receipt: the method, its caller and arguments
\* (msg for nft_on_approve), whether it returned ("ok") or the message it
\* panicked with, the value a view returned, the promise it scheduled, and,
\* for a callback, the result of the promise it follows
Call(op, caller, id, amount, deposit, result, ret, promise) ==
    [op |-> op, caller |-> caller, nft_id |-> id, amount |-> amount,
     deposit |-> deposit, result |-> result, ret |-> ret, promise |-> promise,
     prior |-> "none", msg |-> NoParams]

---------------------------------------------------------------------------
(* Contract::default, lines 44-50 *)

Init ==
    /\ now = 1
    /\ keysLen = 0
    /\ vecSlot = <<>>
    /\ auctionVal = <<>>
    /\ bidVal = <<>>
    /\ pending = <<>>
    /\ lastCall = Call("new", Self, NoId, 0, 0, "ok", 0, NoLegs)

\* a function without the key k
Without(f, k) == [x \in DOMAIN f \ {k} |-> f[x]]
\* a function with k bound to v
With(f, k, v) == [x \in DOMAIN f \cup {k} |-> IF x = k THEN v ELSE f[x]]

\* the block timestamp never decreases
Tick ==
    /\ now < MaxNow
    /\ now' = now + 1
    /\ lastCall' = Call("tick", Self, NoId, 0, 0, "ok", 0, NoLegs)
    /\ UNCHANGED <<keysLen, vecSlot, auctionVal, bidVal, pending>>

---------------------------------------------------------------------------
(* AdmissionFlow: nft_on_approve, lines 62-104 *)

\* the documents msg can hold
Params == [timespan : Timespans, minimum_bid : Floors, parsed : {TRUE}]
Messages == Params \cup {NoParams}
\* the (msg, attached deposit) pairs nft_on_approve is called with: every
\* message without a deposit, and every well-formed message with a deposit
ApproveInputs ==
    {<<msg, 0>> : msg \in Messages} \cup {<<msg, 1>> : msg \in Params}

\* nft_on_approve adding timespan to the timestamp without checked_add
NftOnApproveResultUnchecked(deposit, msg) ==
    IF deposit # 0 THEN ErrNoDeposit
    ELSE IF ~msg.parsed THEN ErrInvalidMessage
    ELSE IF ~(msg.timespan > 0) THEN ErrTimespan
    ELSE "ok"

\* nft_on_approve without require!(timespan > 0)
NftOnApproveResultAnyTimespan(deposit, msg) ==
    IF deposit # 0 THEN ErrNoDeposit
    ELSE IF ~msg.parsed THEN ErrInvalidMessage
    ELSE IF now + msg.timespan > MaxTimestamp THEN ErrOverflow
    ELSE "ok"

\* the outcome of nft_on_approve's validations, lines 74-81, behind the
\* entry point's check that a method without #[payable] carries no deposit
NftOnApproveResult(deposit, msg) ==
    IF deposit # 0 THEN ErrNoDeposit
    ELSE IF ~msg.parsed THEN ErrInvalidMessage
    ELSE IF ~(msg.timespan > 0) THEN ErrTimespan
    ELSE IF now + msg.timespan > MaxTimestamp THEN ErrOverflow
    ELSE "ok"

\* the promise nft_on_approve returns, lines 85-102
NftOnApprovePromise(nft, token_id, owner_id, msg) ==
    LET nft_id == NFTIdNew(nft, token_id)
        expiry == now + msg.timespan
    IN  <<NftTransferLeg(nft, nft_id),
          StartAuctionLeg(owner_id, nft_id, expiry, msg.minimum_bid)>>

NftOnApprove(nft, token_id, owner_id, msg, deposit) ==
    LET result == NftOnApproveResult(deposit, msg)
        promise == IF result = "ok"
                   THEN NftOnApprovePromise(nft, token_id, owner_id, msg)
                   ELSE NoLegs
    IN  /\ Len(pending) < MaxPending
        /\ pending' = IF result = "ok" THEN Append(pending, Chain(promise))
                      ELSE pending
        /\ lastCall' = [Call("nft_on_approve", nft, NFTIdNew(nft, token_id),
                             msg.minimum_bid, deposit, result, 0, promise)
                            EXCEPT !.msg = msg]
        /\ UNCHANGED <<now, keysLen, vecSlot, auctionVal, bidVal>>

---------------------------------------------------------------------------
(* start_auction, lines 109-124 *)

\* Auction { owner, bids: IterableMap::new(b"a"), h_bid, expiry }, with the
\* index of its key in the registry's key Vector (store::IterableMap keeps
\* it beside the value); bids_len is the length of the bids' key Vector
NewAuction(owner_id, expiry, minimum_bid, key_index) ==
    [owner |-> owner_id, bids_len |-> 0, h_bid |-> minimum_bid,
     expiry |-> expiry, key_index |-> key_index]

\* self.auctions.insert(nft_id, auction): a present key keeps its place and
\* has its value replaced, an absent one is pushed to the key Vector
StartAuction(owner_id, nft_id, expiry, minimum_bid) ==
    IF nft_id \in DOMAIN auctionVal
    THEN /\ auctionVal' = With(auctionVal, nft_id,
                NewAuction(owner_id, expiry, minimum_bid,
                           auctionVal[nft_id].key_index))
         /\ UNCHANGED <<keysLen, vecSlot, bidVal>>
    ELSE /\ auctionVal' = With(auctionVal, nft_id,
                NewAuction(owner_id, expiry, minimum_bid, keysLen))
         /\ vecSlot' = With(vecSlot, keysLen, NftKey(nft_id))
         /\ keysLen' = keysLen + 1
         /\ UNCHANGED bidVal

\* start_auction without #[private]: any caller's call records the Auction
StartAuctionCallPublic(caller, owner_id, nft_id, expiry, minimum_bid) ==
    /\ caller # Self
    /\ StartAuction(owner_id, nft_id, expiry, minimum_bid)
    /\ lastCall' = Call("start_auction", caller, nft_id, minimum_bid, 0,
                        "ok", 0, NoLegs)
    /\ UNCHANGED <<now, pending>>

\* #[private]: a caller other than the contract itself is turned away
StartAuctionCall(caller, owner_id, nft_id, expiry, minimum_bid) ==
    /\ caller # Self
    /\ lastCall' = Call("start_auction", caller, nft_id, minimum_bid, 0,
                        ErrPrivate, 0, NoLegs)
    /\ UNCHANGED <<now, keysLen, vecSlot, auctionVal, bidVal, pending>>

---------------------------------------------------------------------------
(* Resolution of scheduled promises *)

\* outcomes of a call or transfer that leaves the contract: a method call to
\* an account that holds no NFT contract fails; anything else may succeed or
\* fail
Outcomes(leg) ==
    IF leg.kind \in {"nft_transfer", "nft_approve"} /\ leg.to \notin NftContracts
    THEN {"failed"}
    ELSE {"ok", "failed"}

\* pending after chain i has run its next leg with the given result
Advance(i, result) ==
    LET c == pending[i]
        d == [c EXCEPT !.pc = c.pc + 1, !.results = Append(c.results, result)]
    IN  IF d.pc > Len(d.legs)
        THEN [j \in 1..(Len(pending) - 1) |->
                 IF j < i THEN pending[j] ELSE pending[j + 1]]
        ELSE [pending EXCEPT ![i] = d]

\* the result of the leg before the next one of chain c ("none" for the first)
PriorResult(c) == IF c.pc = 1 THEN "none" ELSE c.results[c.pc - 1]

\* an external leg resolves
RunExternal(i) ==
    LET c == pending[i]
        leg == c.legs[c.pc]
    IN  /\ leg.kind # "start_auction"
        /\ \E outcome \in Outcomes(leg) :
              /\ pending' = Advance(i, outcome)
              /\ lastCall' = Call(leg.kind, Self, leg.nft_id, leg.amount,
                                  leg.deposit, outcome, 0, NoLegs)
        /\ UNCHANGED <<now, keysLen, vecSlot, auctionVal, bidVal>>

\* the callback start_auction runs, whatever became of the leg before it:
\* it is called by the contract itself and does not read the promise result
RunStartAuction(i) ==
    LET c == pending[i]
        leg == c.legs[c.pc]
    IN  /\ leg.kind = "start_auction"
        /\ StartAuction(leg.account, leg.nft_id, leg.expiry, leg.amount)
        /\ pending' = Advance(i, "ok")
        /\ lastCall' = [Call("start_auction", Self, leg.nft_id, leg.amount, 0,
                             "ok", 0, NoLegs) EXCEPT !.prior = PriorResult(c)]
        /\ UNCHANGED now

---------------------------------------------------------------------------
(* BidLedger: the IterableMap `bids` of an Auction *)

\* every slot auction.bids.iter() reads holds an AccountId that has a value
BidsReadable(auction) ==
    \A i \in 0..(auction.bids_len - 1) :
        /\ i \in DOMAIN vecSlot
        /\ vecSlot[i].type = "AccountId"
        /\ vecSlot[i].key \in DOMAIN bidVal

\* auction.bids.iter(): the entries in the order of the key Vector, which is
\* the order of insertion
Bids(auction) ==
    [i \in 1..auction.bids_len |->
        LET acc == vecSlot[i - 1].key
        IN  [account |-> acc, amount |-> bidVal[acc].amount,
             paid |-> bidVal[acc].paid]]

\* auction.bids.contains_key(&bidder): the storage key "am" ++ bidder exists
BidsContainsKey(auction, bidder) == bidder \in DOMAIN bidVal

---------------------------------------------------------------------------
(* make_bid, lines 184-214 *)

\* make_bid without the comparison of the amount with the floor
MakeBidResultNoFloor(bidder, nft_id, amount, deposit) ==
    IF deposit # 0 THEN ErrNoDeposit
    ELSE IF nft_id \notin DOMAIN auctionVal THEN ErrNotInAuction
    ELSE IF ~(deposit >= amount) THEN ErrDeposit
    ELSE IF BidsContainsKey(auctionVal[nft_id], bidder) THEN ErrDuplicateBid
    ELSE IF ~(now < auctionVal[nft_id].expiry) THEN ErrExpired
    ELSE "ok"

\* make_bid as a #[payable] method: a deposit is let through
MakeBidResultPayable(bidder, nft_id, amount, deposit) ==
    IF nft_id \notin DOMAIN auctionVal THEN ErrNotInAuction
    ELSE IF ~(amount > auctionVal[nft_id].h_bid) THEN ErrBidTooLow
    ELSE IF ~(deposit >= amount) THEN ErrDeposit
    ELSE IF BidsContainsKey(auctionVal[nft_id], bidder) THEN ErrDuplicateBid
    ELSE IF ~(now < auctionVal[nft_id].expiry) THEN ErrExpired
    ELSE "ok"

\* the (amount, attached deposit) pairs make_bid is called with: no deposit,
\* a deposit equal to the amount, and the largest deposit
BidInputs ==
    {<<amount, deposit>> \in Amounts \X Amounts :
        deposit \in {0, amount, MaxAmount}}

\* the validations in the order of the code; make_bid is not #[payable], so
\* its entry point turns away every call that carries a deposit
MakeBidResult(bidder, nft_id, amount, deposit) ==
    IF deposit # 0 THEN ErrNoDeposit
    ELSE IF nft_id \notin DOMAIN auctionVal THEN ErrNotInAuction
    ELSE IF ~(amount > auctionVal[nft_id].h_bid) THEN ErrBidTooLow
    ELSE IF ~(deposit >= amount) THEN ErrDeposit
    ELSE IF BidsContainsKey(auctionVal[nft_id], bidder) THEN ErrDuplicateBid
    ELSE IF ~(now < auctionVal[nft_id].expiry) THEN ErrExpired
    ELSE "ok"

\* auction.bids.insert(bidder, Bid { amount, paid: false })
BidsInsert(bidder, nft_id, amount) ==
    LET auction == auctionVal[nft_id]
    IN  /\ vecSlot' = With(vecSlot, auction.bids_len, AccountKey(bidder))
        /\ bidVal' = With(bidVal, bidder,
               [amount |-> amount, paid |-> FALSE,
                key_index |-> auction.bids_len])
        /\ auctionVal' = [auctionVal EXCEPT ![nft_id].bids_len = @ + 1]
        /\ UNCHANGED keysLen

\* make_bid whose insert is done as soon as the Auction is found and stays
\* when a later check fails
MakeBidInsertFirst(bidder, nft, token_id, amount, deposit) ==
    LET nft_id == NFTIdNew(nft, token_id)
        result == MakeBidResult(bidder, nft_id, amount, deposit)
    IN  /\ IF nft_id \in DOMAIN auctionVal
           THEN BidsInsert(bidder, nft_id, amount)
           ELSE UNCHANGED <<keysLen, vecSlot, auctionVal, bidVal>>
        /\ lastCall' = Call("make_bid", bidder, nft_id, amount, deposit,
                            result, 0, NoLegs)
        /\ UNCHANGED <<now, pending>>

MakeBid(bidder, nft, token_id, amount, deposit) ==
    LET nft_id == NFTIdNew(nft, token_id)
        result == MakeBidResult(bidder, nft_id, amount, deposit)
    IN  /\ IF result = "ok"
           THEN BidsInsert(bidder, nft_id, amount)
           ELSE UNCHANGED <<keysLen, vecSlot, auctionVal, bidVal>>
        /\ lastCall' = Call("make_bid", bidder, nft_id, amount, deposit,
                            result, 0, NoLegs)
        /\ UNCHANGED <<now, pending>>

---------------------------------------------------------------------------
(* SettlementEngine: end_auction, lines 126-182 *)

\* the entries the fold refunds: not the last one's account, not yet paid
Refunds(bids) ==
    LET h_bidder == bids[Len(bids)].account
    IN  SelectSeq(bids, LAMBDA b : b.account # h_bidder /\ ~b.paid)

RECURSIVE TransferLegs(_)
TransferLegs(bids) ==
    IF bids = <<>> THEN <<>>
    ELSE <<TransferLeg(bids[1].account, bids[1].amount)>>
             \o TransferLegs(Tail(bids))

\* end_auction attaching one yoctoNEAR to the approval in the branch without
\* bids too
EndAuctionPromiseOneYocto(nft, nft_id, auction, deposit) ==
    LET bids == Bids(auction)
    IN  IF bids = <<>>
        THEN <<NftApproveLeg(nft, nft_id, auction.owner, 1)>>
        ELSE <<NftApproveLeg(nft, nft_id, bids[Len(bids)].account, 1),
               TransferLeg(auction.owner, bids[Len(bids)].amount)>>
                 \o TransferLegs(Refunds(bids))

\* the promise end_auction builds, lines 141-179
EndAuctionPromise(nft, nft_id, auction, deposit) ==
    LET bids == Bids(auction)
    IN  IF bids = <<>>
        THEN <<NftApproveLeg(nft, nft_id, auction.owner, deposit)>>
        ELSE <<NftApproveLeg(nft, nft_id, bids[Len(bids)].account, 1),
               TransferLeg(auction.owner, bids[Len(bids)].amount)>>
                 \o TransferLegs(Refunds(bids))

\* self.auctions.remove(&nft_id) can read the slots it swaps
RemoveReadable(nft_id) ==
    LET idx == auctionVal[nft_id].key_index
        last == keysLen - 1
    IN  /\ idx <= last
        /\ \A i \in {idx, last} :
              i \in DOMAIN vecSlot /\ vecSlot[i].type = "NFTId"

\* end_auction without the comparison of the time with the expiry
EndAuctionResultNoExpiry(nft_id) ==
    IF nft_id \notin DOMAIN auctionVal THEN ErrNotInAuction
    ELSE IF ~BidsReadable(auctionVal[nft_id]) THEN ErrStorage
    ELSE IF /\ Bids(auctionVal[nft_id]) # <<>>
            /\ Refunds(Bids(auctionVal[nft_id])) # <<>> THEN ErrScheduled
    ELSE IF ~RemoveReadable(nft_id) THEN ErrStorage
    ELSE "ok"

\* the validations of end_auction and the panics of the calls it makes.
\* Promise::then panics when its argument already follows another promise:
\* the fold returns the last refund, which follows the owner's payment
EndAuctionResult(nft_id) ==
    IF nft_id \notin DOMAIN auctionVal THEN ErrNotInAuction
    ELSE IF ~(now >= auctionVal[nft_id].expiry) THEN ErrStillOpen
    ELSE IF ~BidsReadable(auctionVal[nft_id]) THEN ErrStorage
    ELSE IF /\ Bids(auctionVal[nft_id]) # <<>>
            /\ Refunds(Bids(auctionVal[nft_id])) # <<>> THEN ErrScheduled
    ELSE IF ~RemoveReadable(nft_id) THEN ErrStorage
    ELSE "ok"

\* end_auction leaving the Auction in the registry when it returns
AuctionsRemoveDeferred(nft_id) ==
    UNCHANGED <<keysLen, vecSlot, auctionVal, bidVal>>

\* self.auctions.remove(&nft_id): the value goes, the last key of the key
\* Vector takes the place of the removed one (swap_remove) and the value of
\* the key that moved is told its new index
AuctionsRemove(nft_id) ==
    LET idx == auctionVal[nft_id].key_index
        last == keysLen - 1
        moved == vecSlot[last].key
        rest == Without(auctionVal, nft_id)
    IN  /\ keysLen' = last
        /\ vecSlot' = IF idx = last THEN Without(vecSlot, last)
                      ELSE Without(With(vecSlot, idx, vecSlot[last]), last)
        /\ auctionVal' = IF idx # last /\ moved \in DOMAIN rest
                         THEN [rest EXCEPT ![moved].key_index = idx]
                         ELSE rest
        /\ UNCHANGED bidVal

EndAuction(caller, nft, token_id, deposit) ==
    LET nft_id == NFTIdNew(nft, token_id)
        result == EndAuctionResult(nft_id)
        promise == IF result = "ok"
                   THEN EndAuctionPromise(nft, nft_id, auctionVal[nft_id], deposit)
                   ELSE NoLegs
    IN  /\ Len(pending) < MaxPending
        /\ IF result = "ok"
           THEN /\ AuctionsRemove(nft_id)
                /\ pending' = Append(pending, Chain(promise))
           ELSE UNCHANGED <<keysLen, vecSlot, auctionVal, bidVal, pending>>
        /\ lastCall' = Call("end_auction", caller, nft_id, 0, deposit,
                            result, 0, promise)
        /\ UNCHANGED now

---------------------------------------------------------------------------
(* QueryFacet: len and expired, lines 216-227 *)

\* self.auctions.len()
AuctionsLen == keysLen

LenCall ==
    /\ lastCall' = Call("len", Self, NoId, 0, 0, "ok", AuctionsLen, NoLegs)
    /\ UNCHANGED <<now, keysLen, vecSlot, auctionVal, bidVal, pending>>

ExpiredResult(nft_id) ==
    IF nft_id \notin DOMAIN auctionVal THEN ErrNotInAuction ELSE "ok"

\* current_time >= auction.expiry
ExpiredValue(nft_id) == now >= auctionVal[nft_id].expiry

Expired(nft, token_id) ==
    LET nft_id == NFTIdNew(nft, token_id)
        result == ExpiredResult(nft_id)
    IN  /\ lastCall' = Call("expired", Self, nft_id, 0, 0, result,
                            IF result = "ok" THEN ExpiredValue(nft_id)
                            ELSE FALSE, NoLegs)
        /\ UNCHANGED <<now, keysLen, vecSlot, auctionVal, bidVal, pending>>

---------------------------------------------------------------------------
(* The contract and its environment *)

Next ==
    \/ Tick
    \/ \E nft \in Collections, token_id \in Tokens, owner_id \in Owners,
          in \in ApproveInputs :
          NftOnApprove(nft, token_id, owner_id, in[1], in[2])
    \/ \E caller \in {"bob"}, nft_id \in NFTIds :
          StartAuctionCall(caller, caller, nft_id, MaxTimestamp, 0)
    \/ \E i \in 1..Len(pending) : RunExternal(i)
    \/ \E i \in 1..Len(pending) : RunStartAuction(i)
    \/ \E bidder \in Users, nft \in Collections, token_id \in Tokens,
          in \in BidInputs :
          MakeBid(bidder, nft, token_id, in[1], in[2])
    \/ \E caller \in {"bob"}, nft \in Collections, token_id \in Tokens,
          deposit \in {0, MaxAmount} :
          EndAuction(caller, nft, token_id, deposit)
    \/ LenCall
    \/ \E nft \in Collections, token_id \in Tokens : Expired(nft, token_id)

Spec == Init /\ [][Next]_vars

---------------------------------------------------------------------------
(* Vocabulary of the properties *)

\* the Auction of a key is live
Live(nft_id) == nft_id \in DOMAIN auctionVal

\* the bid ledger of the Auction of a key, as end_auction would read it
Ledger(nft_id) ==
    IF Live(nft_id) /\ BidsReadable(auctionVal[nft_id])
    THEN Bids(auctionVal[nft_id])
    ELSE <<>>

\* the accounts that have an entry in a ledger
Bidders(ledger) == {ledger[i].account : i \in 1..Len(ledger)}

\* the contract's own state is left as it was
StateUnchanged == UNCHANGED <<keysLen, vecSlot, auctionVal, bidVal>>

\* the step is the execution of a call of the method op (a call that
\* leaves every variable as it was is a stuttering step)
Called(op) == lastCall'.op = op /\ vars' # vars

---------------------------------------------------------------------------
(* C1 *)

---------------------------------------------------------------------------
(* C4 *)

\* C4 as claimed: a successful end_auction lowers the count of live Auctions
\* by one and removes the Auction, and the call that follows it for the same
\* key, be it end_auction, make_bid or expired, fails with NotInAuction,
\* schedules no promise and changes nothing.
C4_SettledOnceThenNotInAuction ==
    [][/\ (Called("end_auction") /\ lastCall'.result = "ok")
          => /\ AuctionsLen' = AuctionsLen - 1
             /\ lastCall'.nft_id \notin DOMAIN auctionVal'
       /\ (/\ lastCall.op = "end_auction" /\ lastCall.result = "ok"
           /\ lastCall'.op \in {"end_auction", "make_bid", "expired"}
           /\ lastCall'.nft_id = lastCall.nft_id)
          => /\ lastCall'.result = ErrNotInAuction
             /\ lastCall'.promise = NoLegs
             /\ pending' = pending
             /\ StateUnchanged]_vars

---------------------------------------------------------------------------
(* C5 *)

\* C5 as claimed: start_auction records an Auction only when the nft_transfer
\* it follows has succeeded.
C5_AuctionOnlyAfterCustody ==
    (lastCall.op = "start_auction" /\ lastCall.result = "ok")
        => lastCall.prior = "ok"

---------------------------------------------------------------------------
(* C6 *)

\* C6 as claimed: on a live Auction before its expiry, a make_bid by a
\* participant without an entry, with amount > floor and attached deposit >=
\* amount, returns and appends Bid{amount, paid: false} for the participant;
\* a make_bid by a participant with an entry fails with DuplicateBid; a
\* make_bid with amount <= floor fails with BidTooLow.
C6_ValidBidAdmitted ==
    [][\A nft_id \in NFTIds :
        (Called("make_bid") /\ lastCall'.nft_id = nft_id /\ Live(nft_id))
        => LET c == lastCall'
               a == auctionVal[nft_id]
           IN  /\ (/\ now < a.expiry
                   /\ c.caller \notin Bidders(Ledger(nft_id))
                   /\ c.amount > a.h_bid
                   /\ c.deposit >= c.amount)
                  => /\ c.result = "ok"
                     /\ Ledger(nft_id)' = Append(Ledger(nft_id),
                            [account |-> c.caller, amount |-> c.amount,
                             paid |-> FALSE])
               /\ (c.caller \in Bidders(Ledger(nft_id))
                   /\ c.amount > a.h_bid /\ c.deposit >= c.amount)
                  => c.result = ErrDuplicateBid
               /\ c.amount <= a.h_bid => c.result = ErrBidTooLow]_vars

---------------------------------------------------------------------------
(* C7 *)

---------------------------------------------------------------------------
(* C9 *)

\* an end_auction call on a live Auction has failed as still open
C9_Witness ==
    /\ lastCall.op = "end_auction"
    /\ Live(lastCall.nft_id)
    /\ now < auctionVal[lastCall.nft_id].expiry
    /\ lastCall.result = ErrStillOpen

\* C9: an end_auction call for a live Auction at a time before its expiry
\* fails with AuctionStillOpen, schedules no promise, and leaves the registry
\* (the Auction with its owner, floor, expiry and ledger, and the count of
\* live Auctions) as it was.
C9_EndBeforeExpiryFails ==
    [][\A nft_id \in NFTIds :
        (/\ Called("end_auction") /\ lastCall'.nft_id = nft_id
         /\ Live(nft_id) /\ now < auctionVal[nft_id].expiry)
        => /\ lastCall'.result = ErrStillOpen
           /\ lastCall'.promise = NoLegs
           /\ pending' = pending
           /\ Live(nft_id)'
           /\ auctionVal'[nft_id] = auctionVal[nft_id]
           /\ Ledger(nft_id)' = Ledger(nft_id)
           /\ AuctionsLen' = AuctionsLen
           /\ StateUnchanged]_vars

---------------------------------------------------------------------------
(* C10 *)

\* an end_auction call with a deposit of more than one yoctoNEAR has settled
\* an Auction without bids
C10_Witness ==
    /\ lastCall.op = "end_auction"
    /\ lastCall.result = "ok"
    /\ lastCall.deposit > 1
    /\ Len(lastCall.promise) = 1
    /\ ~Live(lastCall.nft_id)

\* C10: an end_auction call that returns for an Auction without bids
\* schedules one promise, the nft_approve of the Auction's owner for the token
\* on the collection, carrying the whole deposit attached to the call, and no
\* transfer; the Auction is removed from the registry.
C10_NoBidSettlement ==
    [][\A nft_id \in NFTIds :
        (/\ Called("end_auction") /\ lastCall'.nft_id = nft_id
         /\ lastCall'.result = "ok" /\ Ledger(nft_id) = <<>>)
        => /\ lastCall'.promise =
                 <<NftApproveLeg(nft_id[1], nft_id, auctionVal[nft_id].owner,
                                 lastCall'.deposit)>>
           /\ pending' = Append(pending, Chain(lastCall'.promise))
           /\ \A i \in 1..Len(lastCall'.promise) :
                 lastCall'.promise[i].kind # "transfer"
           /\ ~Live(nft_id)'
           /\ AuctionsLen' = AuctionsLen - 1]_vars

---------------------------------------------------------------------------
(* C11 *)

\* the terms of the Auction recorded for a key, NoTerms when there is none
NoTerms == [owner |-> NoAccount, h_bid |-> 0, expiry |-> 0]
Terms(nft_id) ==
    IF Live(nft_id)
    THEN [owner |-> auctionVal[nft_id].owner, h_bid |-> auctionVal[nft_id].h_bid,
          expiry |-> auctionVal[nft_id].expiry]
    ELSE NoTerms

\* a start_auction call by an account other than the contract has been
\* turned away while an Auction is live for the key it names
C11_Witness ==
    /\ lastCall.op = "start_auction"
    /\ lastCall.caller # Self
    /\ lastCall.result = ErrPrivate
    /\ Live(lastCall.nft_id)

\* C11: a start_auction call whose caller is not the contract itself fails
\* and changes nothing; an Auction appears in the registry, or has its owner,
\* floor or expiry changed, only in a start_auction call made by the contract
\* itself as the callback of the nft_transfer that nft_on_approve scheduled,
\* with the owner, key, expiry and floor that nft_on_approve passed on.
C11_OnlySelfCallRecordsAuction ==
    [][/\ (Called("start_auction") /\ lastCall'.caller # Self)
          => /\ lastCall'.result = ErrPrivate
             /\ pending' = pending
             /\ StateUnchanged
       /\ \A nft_id \in NFTIds :
             (Live(nft_id)' /\ Terms(nft_id)' # Terms(nft_id))
             => /\ lastCall'.op = "start_auction"
                /\ lastCall'.caller = Self
                /\ lastCall'.result = "ok"
                /\ lastCall'.nft_id = nft_id
                /\ \E i \in 1..Len(pending) :
                      LET c == pending[i]
                      IN  /\ c.pc = 2
                          /\ c.legs[1] = NftTransferLeg(nft_id[1], nft_id)
                          /\ c.legs[2].kind = "start_auction"
                          /\ c.legs[2].to = Self
                          /\ c.legs[2].nft_id = nft_id
                          /\ Terms(nft_id)' =
                                [owner |-> c.legs[2].account,
                                 h_bid |-> c.legs[2].amount,
                                 expiry |-> c.legs[2].expiry]]_vars

---------------------------------------------------------------------------
(* C12 *)

\* the step is an nft_on_approve call whose msg holds a timespan that added
\* to the block timestamp exceeds the greatest timestamp
AdmissionOverflows ==
    /\ Called("nft_on_approve")
    /\ lastCall'.msg.parsed
    /\ now + lastCall'.msg.timespan > MaxTimestamp

\* the call of the step has failed, scheduled nothing and changed nothing
Aborted ==
    /\ lastCall'.result # "ok"
    /\ lastCall'.promise = NoLegs
    /\ pending' = pending
    /\ StateUnchanged

\* an nft_on_approve call that returns passes on the expiry timestamp +
\* timespan, which is later than the timestamp and not beyond the greatest
\* one; the Auction its callback records has that expiry
ExpiryExact ==
    /\ (Called("nft_on_approve") /\ lastCall'.result = "ok")
       => /\ Len(lastCall'.promise) = 2
          /\ lastCall'.promise[2].kind = "start_auction"
          /\ lastCall'.promise[2].expiry = now + lastCall'.msg.timespan
          /\ lastCall'.promise[2].expiry > now
          /\ lastCall'.promise[2].expiry <= MaxTimestamp
          /\ pending' = Append(pending, Chain(lastCall'.promise))
    /\ \A nft_id \in NFTIds :
          (Called("start_auction") /\ lastCall'.result = "ok"
           /\ lastCall'.nft_id = nft_id)
          => /\ \E i \in 1..Len(pending) :
                   /\ pending[i].pc = 2
                   /\ pending[i].legs[2].nft_id = nft_id
                   /\ Terms(nft_id)'.expiry = pending[i].legs[2].expiry
             /\ Terms(nft_id)'.expiry <= MaxTimestamp

\* C12 as claimed: every nft_on_approve call whose timestamp + timespan
\* exceeds the greatest timestamp fails with the overflow message, schedules
\* no nft_transfer and records no Auction; any other that returns gives the
\* Auction the expiry timestamp + timespan, later than the timestamp.
C12_OverflowAbortsElseExactExpiry ==
    [][/\ AdmissionOverflows
          => (Aborted /\ lastCall'.result = ErrOverflow)
       /\ ExpiryExact]_vars

\* an nft_on_approve call without deposit has failed on the overflow
C12_Witness ==
    /\ lastCall.op = "nft_on_approve"
    /\ lastCall.deposit = 0
    /\ lastCall.msg.parsed
    /\ now + lastCall.msg.timespan > MaxTimestamp
    /\ lastCall.result = ErrOverflow

\* C12: every nft_on_approve call whose timestamp + timespan exceeds the
\* greatest timestamp fails, schedules no nft_transfer and records no
\* Auction, and when it carries no deposit the failure is the overflow
\* message; any other call that returns gives the Auction the expiry
\* timestamp + timespan, later than the timestamp and without wrap-around.
C12_OverflowAbortsWithoutDeposit ==
    [][/\ AdmissionOverflows
          => /\ Aborted
             /\ lastCall'.deposit = 0 => lastCall'.result = ErrOverflow
       /\ ExpiryExact]_vars

---------------------------------------------------------------------------
(* C13 *)

\* the step is an nft_on_approve call whose msg holds the timespan 0
AdmissionWithoutDuration ==
    /\ Called("nft_on_approve")
    /\ lastCall'.msg.parsed
    /\ lastCall'.msg.timespan = 0

\* C13 as claimed: every nft_on_approve call with timespan 0 fails with the
\* timespan message, schedules no promise, records no Auction and leaves the
\* registry as it was.
C13_ZeroDurationInvalidParameter ==
    [][AdmissionWithoutDuration
          => (Aborted /\ lastCall'.result = ErrTimespan)]_vars

\* an nft_on_approve call without deposit and with timespan 0 has failed on
\* the timespan while the registry holds an Auction
C13_Witness ==
    /\ lastCall.op = "nft_on_approve"
    /\ lastCall.deposit = 0
    /\ lastCall.msg.parsed
    /\ lastCall.msg.timespan = 0
    /\ lastCall.result = ErrTimespan
    /\ AuctionsLen > 0

\* C13: every nft_on_approve call with timespan 0 fails, schedules no
\* promise, records no Auction and leaves the registry as it was, and when
\* it carries no deposit the failure is the timespan message.
C13_ZeroDurationAborts ==
    [][AdmissionWithoutDuration
          => /\ Aborted
             /\ lastCall'.deposit = 0 => lastCall'.result = ErrTimespan]_vars

---------------------------------------------------------------------------
(* C14 *)

---------------------------------------------------------------------------
(* C16 *)

\* C16 as claimed: when expired has returned for a live Auction and the next
\* call, at the same timestamp, is for the same Auction, then an end_auction
\* fails as still open exactly if expired returned false, and a make_bid
\* that passes the checks before the one on time fails as expired exactly if
\* expired returned true; a live Auction that has expired is expired in
\* every later state in which it is live, and its ledger does not change.
C16_TimeChecksComplementary ==
    [][\A nft_id \in NFTIds :
        /\ (/\ lastCall.op = "expired" /\ lastCall.result = "ok"
            /\ lastCall.nft_id = nft_id /\ lastCall'.nft_id = nft_id
            /\ Live(nft_id))
           => /\ lastCall.ret = ExpiredValue(nft_id)
              /\ Called("end_auction")
                 => (lastCall'.result = ErrStillOpen <=> lastCall.ret = FALSE)
              /\ (/\ Called("make_bid")
                  /\ lastCall'.amount > auctionVal[nft_id].h_bid
                  /\ lastCall'.deposit >= lastCall'.amount
                  /\ lastCall'.caller \notin Bidders(Ledger(nft_id)))
                 => (lastCall'.result = ErrExpired <=> lastCall.ret = TRUE)
        /\ (Live(nft_id) /\ ExpiredValue(nft_id) /\ Live(nft_id)')
           => /\ ExpiredValue(nft_id)'
              /\ Ledger(nft_id)' = Ledger(nft_id)]_vars

---------------------------------------------------------------------------
(* C17 *)

---------------------------------------------------------------------------
(* C18 *)

\* C18 as claimed: a make_bid call reports the first that fails of: the
\* Auction exists, amount > floor, attached deposit >= amount, the caller
\* has no entry in the ledger, current time < expiry, in this order, and
\* returns when none fails; a call that fails changes nothing.
C18_ChecksInOrder ==
    [][\A nft_id \in NFTIds :
        (Called("make_bid") /\ lastCall'.nft_id = nft_id)
        => LET c == lastCall'
           IN  /\ c.result =
                    IF ~Live(nft_id) THEN ErrNotInAuction
                    ELSE IF c.amount <= auctionVal[nft_id].h_bid
                         THEN ErrBidTooLow
                    ELSE IF c.deposit < c.amount THEN ErrDeposit
                    ELSE IF c.caller \in Bidders(Ledger(nft_id))
                         THEN ErrDuplicateBid
                    ELSE IF now >= auctionVal[nft_id].expiry THEN ErrExpired
                    ELSE "ok"
               /\ c.result # "ok" => (StateUnchanged /\ pending' = pending)]_vars

====
